---- MODULE Spec2Model ----
(***************************************************************************)
(* BasicGraphicsScene of the node editor: the scene that mirrors an        *)
(* AbstractGraphModel into node and connection graphics objects.           *)
(*                                                                         *)
(* The scene runs on one thread.  A call of the scene's API or a mutation  *)
(* of the graph model is one action; the notifications the model emits are *)
(* delivered in order, one handler per step, before anything else runs     *)
(* (the variable pending holds the notifications not delivered yet).       *)
(* traverseGraphAndPopulateGraphicsObjects is modelled loop iteration by   *)
(* loop iteration, because its loops need not terminate.                   *)
(***************************************************************************)
EXTENDS Integers, Sequences, FiniteSets, TLC

\* ------------------------------------------------------------------------
\* Bounds of the model
\* ------------------------------------------------------------------------

\* node ids are 1 .. MaxNode
MaxNode == 3

\* a graph model holds at most MaxConns connections
MaxConns == 2

\* connectionsToCreate is tracked exactly up to this length (a population
\* that finishes never gets there, see ToCreateExact)
MaxToCreate == 2 ^ MaxConns

\* the fifo of one traversal holds at most this many ids
MaxFifo == MaxToCreate + 1

\* ------------------------------------------------------------------------
\* Identifiers
\* ------------------------------------------------------------------------

NodeIds == 1 .. MaxNode

\* the sentinel of an endpoint that is not connected yet
InvalidNodeId == MaxNode + 1

InvalidPortIndex == MaxNode + 1

\* nodeData(nodeId, NodeRole::OutPortCount): in the models that are explored
\* node 1 has one out port, node 2 has two, every other node has none
OutPortCount(nodeId) == IF nodeId < 3 THEN nodeId ELSE 0

ConnectionId(outNodeId, outPortIndex, inNodeId, inPortIndex) ==
  [outNodeId |-> outNodeId, outPortIndex |-> outPortIndex,
   inNodeId |-> inNodeId, inPortIndex |-> inPortIndex]

\* every connection a model over the node set ns can hold: from an existing
\* out port of a node of ns to in port 0 of a node of ns
ConnectionIds(ns) ==
  { c \in [outNodeId : ns, outPortIndex : 0 .. 1,
           inNodeId : ns, inPortIndex : {0}] :
      c.outPortIndex < OutPortCount(c.outNodeId) }

\* the graph models: a node set and a set of connections between its nodes
Models ==
  UNION { { [nodes |-> ns, conns |-> cs] :
              cs \in { x \in SUBSET ConnectionIds(ns) :
                         Cardinality(x) <= MaxConns } } :
          ns \in SUBSET NodeIds }

\* the incomplete connection ids a drag starts with: one bound to an out
\* port (of node 1), one bound to an in port (of the last node)
DraftIds ==
  { ConnectionId(1, 0, InvalidNodeId, InvalidPortIndex),
    ConnectionId(InvalidNodeId, InvalidPortIndex, MaxNode, 0) }

NoDraft == [outNodeId |-> InvalidNodeId, outPortIndex |-> InvalidPortIndex,
            inNodeId |-> InvalidNodeId, inPortIndex |-> InvalidPortIndex]

Orientations == {"Horizontal", "Vertical"}


\* ------------------------------------------------------------------------
\* State
\* ------------------------------------------------------------------------

VARIABLES
  nodes,                  \* the graph model: allNodeIds()
  conns,                  \* the graph model: its connections
  pending,                \* notifications emitted and not delivered yet
  nodeGraphicsObjects,    \* keys of _nodeGraphicsObjects
  connectionGraphicsObjects, \* keys of _connectionGraphicsObjects
  draftConnection,        \* connection id of _draftConnection, or NoDraft
  draftDangling,          \* _draftConnection points to a destroyed object
  liveDrafts,             \* draft connection objects constructed, not destroyed
  orientation,            \* _orientation
  nodeGeometry,           \* the variant of *_nodeGeometry
  nodePainter,            \* the painter *_nodePainter
  pc,                     \* "idle", in the traversal ("outer", "bfs"), "crashed"
  allNodeIds,             \* traversal: the local copy of the node ids
  fifo,                   \* traversal: the queue of the current round
  connectionsToCreate,    \* traversal: the connections recorded
  lastOp,                 \* the last call of the API or of the model
  created,                \* graphics objects constructed since that call
  orphanConns             \* connection objects constructed while an endpoint
                          \* node had no graphics object

vars == << nodes, conns, pending, nodeGraphicsObjects,
           connectionGraphicsObjects, draftConnection, draftDangling,
           liveDrafts, orientation, nodeGeometry, nodePainter, pc, allNodeIds,
           fifo,
           connectionsToCreate, lastOp, created, orphanConns >>

modelVars == << nodes, conns >>

mapVars == << nodeGraphicsObjects, connectionGraphicsObjects >>

draftVars == << draftConnection, draftDangling, liveDrafts >>

strategyVars == << orientation, nodeGeometry, nodePainter >>

traversalVars == << allNodeIds, fifo, connectionsToCreate >>

logVars == << lastOp, created >>

NoObjects == [nodes |-> {}, conns |-> {}, drafts |-> 0]

Op(name, arg) == [name |-> name, arg |-> arg]

\* nothing is executing: no traversal, no notification to deliver
Quiescent == pc = "idle" /\ pending = << >>

\* ------------------------------------------------------------------------
\* The graph model's queries
\* ------------------------------------------------------------------------

\* AbstractGraphModel::connections(nodeId, portType, index)
connections(nodeId, portType, index) ==
  IF portType = "Out"
  THEN { c \in conns : c.outNodeId = nodeId /\ c.outPortIndex = index }
  ELSE { c \in conns : c.inNodeId = nodeId /\ c.inPortIndex = index }

\* the order in which a set of connection ids is iterated: by out port,
\* then by in node, then by out node (no claim depends on the order)
ConnBefore(c, d) ==
  \/ c.outPortIndex < d.outPortIndex
  \/ /\ c.outPortIndex = d.outPortIndex
     /\ \/ c.inNodeId < d.inNodeId
        \/ c.inNodeId = d.inNodeId /\ c.outNodeId < d.outNodeId

RECURSIVE IterationOrder(_)
IterationOrder(cs) ==
  IF cs = {} THEN << >>
  ELSE LET first == CHOOSE c \in cs : \A d \in cs \ {c} : ConnBefore(c, d)
       IN  << first >> \o IterationOrder(cs \ {first})


Range(seq) == { seq[i] : i \in 1 .. Len(seq) }

\* ------------------------------------------------------------------------
\* traverseGraphAndPopulateGraphicsObjects
\* ------------------------------------------------------------------------

\* the call: allNodeIds is a copy of the model's node ids, nothing recorded
BeginTraverse ==
  /\ pc' = "outer"
  /\ allNodeIds' = nodes
  /\ fifo' = << >>
  /\ connectionsToCreate' = << >>

\* OutConnections with a loop that stops one port early
RECURSIVE OutConnections_SkipsLastPort(_, _, _)
OutConnections_SkipsLastPort(nodeId, index, nOutPorts) ==
  IF index + 1 < nOutPorts
  THEN IterationOrder(connections(nodeId, "Out", index))
         \o OutConnections_SkipsLastPort(nodeId, index + 1, nOutPorts)
  ELSE << >>

\* the loop over the out ports of nodeId, from index on: the connections it
\* finds, in the order it finds them
RECURSIVE OutConnections(_, _, _)
OutConnections(nodeId, index, nOutPorts) ==
  IF index < nOutPorts
  THEN IterationOrder(connections(nodeId, "Out", index))
         \o OutConnections(nodeId, index + 1, nOutPorts)
  ELSE << >>

\* connectionsToCreate.push_back for each of found; the vector is tracked up
\* to MaxToCreate elements
PushBack(toCreate, found) ==
  SubSeq(toCreate \o found, 1,
         IF Len(toCreate) + Len(found) <= MaxToCreate
         THEN Len(toCreate) + Len(found) ELSE MaxToCreate)

\* TraverseOuter with an outer loop that runs one round only
TraverseOuter_OneRound ==
  /\ pc = "outer"
  /\ allNodeIds # {}
  /\ \E firstId \in allNodeIds : fifo' = << firstId >>
  /\ allNodeIds' = {}
  /\ pc' = "bfs"
  /\ UNCHANGED << modelVars, pending, mapVars, draftVars, strategyVars,
                  connectionsToCreate, logVars, orphanConns >>

\* one round of the outer loop begins: any node left is popped first
TraverseOuter ==
  /\ pc = "outer"
  /\ allNodeIds # {}
  /\ \E firstId \in allNodeIds :
       /\ allNodeIds' = allNodeIds \ {firstId}
       /\ fifo' = << firstId >>
  /\ pc' = "bfs"
  /\ UNCHANGED << modelVars, pending, mapVars, draftVars, strategyVars,
                  connectionsToCreate, logVars, orphanConns >>

\* the connection objects a construction of the ids cs leaves without a
\* graphics object of an endpoint node
Orphans(cs, nodeObjects) ==
  { c \in cs : c.outNodeId \notin nodeObjects \/ c.inNodeId \notin nodeObjects }

\* TraverseNode with the connection objects constructed as the connections
\* are found
TraverseNode_EagerConnections ==
  /\ pc = "bfs"
  /\ fifo # << >>
  /\ LET nodeId == Head(fifo)
         found  == OutConnections(nodeId, 0, OutPortCount(nodeId))
         pushed == [i \in 1 .. Len(found) |-> found[i].inNodeId]
     IN  /\ Len(fifo) - 1 + Len(found) <= MaxFifo
         /\ nodeGraphicsObjects' = nodeGraphicsObjects \cup {nodeId}
         /\ connectionGraphicsObjects' =
              connectionGraphicsObjects \cup Range(found)
         /\ created' = [created EXCEPT !.nodes = @ \cup {nodeId},
                                       !.conns = @ \cup Range(found)]
         /\ orphanConns' =
              orphanConns
                \cup Orphans(Range(found), nodeGraphicsObjects \cup {nodeId})
         /\ fifo' = Tail(fifo) \o pushed
         /\ allNodeIds' = allNodeIds \ Range(pushed)
         /\ connectionsToCreate' = connectionsToCreate
         /\ pc' = IF Tail(fifo) \o pushed = << >> THEN "outer" ELSE "bfs"
  /\ UNCHANGED << modelVars, pending, draftVars, strategyVars, lastOp >>

\* one iteration of the inner loop: the front of the fifo gets its graphics
\* object, and every connection of its out ports is recorded and followed
TraverseNode ==
  /\ pc = "bfs"
  /\ fifo # << >>
  /\ LET nodeId == Head(fifo)
         found  == OutConnections(nodeId, 0, OutPortCount(nodeId))
         pushed == [i \in 1 .. Len(found) |-> found[i].inNodeId]
     IN  /\ Len(fifo) - 1 + Len(found) <= MaxFifo
         /\ nodeGraphicsObjects' = nodeGraphicsObjects \cup {nodeId}
         /\ created' = [created EXCEPT !.nodes = @ \cup {nodeId}]
         /\ fifo' = Tail(fifo) \o pushed
         /\ allNodeIds' = allNodeIds \ Range(pushed)
         /\ connectionsToCreate' = PushBack(connectionsToCreate, found)
         /\ pc' = IF Tail(fifo) \o pushed = << >> THEN "outer" ELSE "bfs"
  /\ UNCHANGED << modelVars, pending, connectionGraphicsObjects, draftVars,
                  strategyVars, lastOp, orphanConns >>

\* no node is left: the recorded connections get their graphics objects
TraverseCreate ==
  /\ pc = "outer"
  /\ allNodeIds = {}
  /\ connectionGraphicsObjects' =
       connectionGraphicsObjects \cup Range(connectionsToCreate)
  /\ created' = [created EXCEPT !.conns = @ \cup Range(connectionsToCreate)]
  /\ orphanConns' =
       orphanConns \cup Orphans(Range(connectionsToCreate), nodeGraphicsObjects)
  /\ pc' = "idle"
  /\ allNodeIds' = {}
  /\ fifo' = << >>
  /\ connectionsToCreate' = << >>
  /\ UNCHANGED << modelVars, pending, nodeGraphicsObjects, draftVars,
                  strategyVars, lastOp >>

\* ------------------------------------------------------------------------
\* Construction
\* ------------------------------------------------------------------------

\* the members as the constructor's initialisers leave them, over the graph
\* model m, at the constructor's call of the traversal
Constructed(m) ==
  /\ nodes = m.nodes
  /\ conns = m.conns
  /\ pending = << >>
  /\ nodeGraphicsObjects = {}
  /\ connectionGraphicsObjects = {}
  /\ draftConnection = NoDraft
  /\ draftDangling = FALSE
  /\ liveDrafts = 0
  /\ orientation = "Horizontal"
  /\ nodeGeometry = "Horizontal"
  /\ nodePainter = "DefaultNodePainter"
  /\ pc = "outer"
  /\ allNodeIds = m.nodes
  /\ fifo = << >>
  /\ connectionsToCreate = << >>
  /\ lastOp = Op("construct", 0)
  /\ created = NoObjects
  /\ orphanConns = {}

Init == \E m \in Models : Constructed(m)

\* ------------------------------------------------------------------------
\* The graph model: its mutations and the notifications they emit
\* ------------------------------------------------------------------------

Notification(kind, arg) == [kind |-> kind, arg |-> arg]

\* a call from outside the scene, when nothing is executing
Call(name, arg) ==
  /\ Quiescent
  /\ lastOp' = Op(name, arg)

\* the connections that touch nodeId
Attached(cs, nodeId) ==
  { c \in cs : c.outNodeId = nodeId \/ c.inNodeId = nodeId }

\* deleteNode(nodeId): connectionDeleted for each connection that touches
\* the node, then nodeDeleted
DeleteNodeNotifications(cs, nodeId) ==
  LET gone == IterationOrder(Attached(cs, nodeId))
  IN  [i \in 1 .. Len(gone) |-> Notification("connectionDeleted", gone[i])]
        \o << Notification("nodeDeleted", nodeId) >>

\* addNode
ModelAddNode(nodeId) ==
  /\ Call("addNode", 0)
  /\ nodeId \notin nodes
  /\ nodes' = nodes \cup {nodeId}
  /\ pending' = << Notification("nodeCreated", nodeId) >>
  /\ created' = NoObjects
  /\ UNCHANGED << conns, mapVars, draftVars, strategyVars, pc, traversalVars,
                  orphanConns >>

\* deleteNode
ModelDeleteNode(nodeId) ==
  /\ Call("deleteNode", 0)
  /\ nodeId \in nodes
  /\ nodes' = nodes \ {nodeId}
  /\ conns' = conns \ Attached(conns, nodeId)
  /\ pending' = DeleteNodeNotifications(conns, nodeId)
  /\ created' = NoObjects
  /\ UNCHANGED << mapVars, draftVars, strategyVars, pc, traversalVars,
                  orphanConns >>

\* addConnection: between existing ports of existing nodes
ModelAddConnection(connectionId) ==
  /\ Call("addConnection", 0)
  /\ connectionId \in ConnectionIds(nodes) \ conns
  /\ Cardinality(conns) < MaxConns
  /\ conns' = conns \cup {connectionId}
  /\ pending' = << Notification("connectionCreated", connectionId) >>
  /\ created' = NoObjects
  /\ UNCHANGED << nodes, mapVars, draftVars, strategyVars, pc, traversalVars,
                  orphanConns >>

\* deleteConnection
ModelDeleteConnection(connectionId) ==
  /\ Call("deleteConnection", 0)
  /\ connectionId \in conns
  /\ conns' = conns \ {connectionId}
  /\ pending' = << Notification("connectionDeleted", connectionId) >>
  /\ created' = NoObjects
  /\ UNCHANGED << nodes, mapVars, draftVars, strategyVars, pc, traversalVars,
                  orphanConns >>

\* setNodeData of a role that changes the node's look, or of its position
ModelSetNodeData(nodeId, kind) ==
  /\ Call("setNodeData", 0)
  /\ nodeId \in nodes
  /\ pending' = << Notification(kind, nodeId) >>
  /\ created' = NoObjects
  /\ UNCHANGED << modelVars, mapVars, draftVars, strategyVars, pc,
                  traversalVars, orphanConns >>

\* the contents a model that holds ns and cs may have after it has changed
\* without single notifications: the same, or one node or one connection
\* more or less (every model is reached by repeating the step)
Reloaded(ns, cs) ==
  { [nodes |-> ns, conns |-> cs] }
    \cup { [nodes |-> ns \cup {n}, conns |-> cs] : n \in NodeIds \ ns }
    \cup { [nodes |-> ns \ {n}, conns |-> cs \ Attached(cs, n)] : n \in ns }
    \cup { [nodes |-> ns, conns |-> cs \cup {c}] :
             c \in { d \in ConnectionIds(ns) \ cs : Cardinality(cs) < MaxConns } }
    \cup { [nodes |-> ns, conns |-> cs \ {c}] : c \in cs }

\* the model replaces its content and emits modelReset
ModelReset(m) ==
  /\ Call("modelReset", 0)
  /\ nodes' = m.nodes
  /\ conns' = m.conns
  /\ pending' = << Notification("modelReset", 0) >>
  /\ created' = NoObjects
  /\ UNCHANGED << mapVars, draftVars, strategyVars, pc, traversalVars,
                  orphanConns >>

\* ------------------------------------------------------------------------
\* The handlers of the notifications
\* ------------------------------------------------------------------------

\* the notification kind is the next to deliver
Deliver(kind) ==
  /\ pc = "idle"
  /\ pending # << >>
  /\ Head(pending).kind = kind
  /\ pending' = Tail(pending)

\* onConnectionDeleted: the entry of the map is erased; a draft connection
\* with the same id is destroyed.  When _draftConnection refers to an object
\* that QGraphicsScene::clear() has deleted, its id is read from freed
\* memory: the comparison fails, or succeeds and the object is deleted a
\* second time without visible effect, or the process stops.  The repaint
\* requests of updateAttachedNodes change no state of the scene.
onConnectionDeleted(connectionId) ==
  /\ connectionGraphicsObjects' = connectionGraphicsObjects \ {connectionId}
  /\ UNCHANGED << nodeGraphicsObjects, traversalVars, created, orphanConns >>
  /\ \/ /\ \/ draftConnection = NoDraft
           \/ ~draftDangling /\ draftConnection # connectionId
        /\ UNCHANGED << draftVars, pc >>
     \/ /\ draftConnection # NoDraft /\ ~draftDangling
        /\ draftConnection = connectionId
        /\ draftConnection' = NoDraft
        /\ liveDrafts' = liveDrafts - 1
        /\ UNCHANGED << draftDangling, pc >>
     \/ /\ draftConnection # NoDraft /\ draftDangling
        /\ \/ UNCHANGED << draftVars, pc >>
           \/ /\ draftConnection' = NoDraft
              /\ draftDangling' = FALSE
              /\ UNCHANGED << liveDrafts, pc >>
           \/ /\ pc' = "crashed"
              /\ UNCHANGED draftVars

OnConnectionDeleted ==
  /\ Deliver("connectionDeleted")
  /\ onConnectionDeleted(Head(pending).arg)
  /\ UNCHANGED << modelVars, strategyVars, lastOp >>

\* onConnectionCreated that assigns the map instead of inserting into it
onConnectionCreated_Replaces(connectionId) ==
  /\ connectionGraphicsObjects' = {connectionId}
  /\ created' = [created EXCEPT !.conns = @ \cup {connectionId}]
  /\ orphanConns' = orphanConns \cup Orphans({connectionId}, nodeGraphicsObjects)
  /\ UNCHANGED << nodeGraphicsObjects, draftVars, pc, traversalVars >>

\* onConnectionCreated (its repaint requests change no state of the scene)
onConnectionCreated(connectionId) ==
  /\ connectionGraphicsObjects' = connectionGraphicsObjects \cup {connectionId}
  /\ created' = [created EXCEPT !.conns = @ \cup {connectionId}]
  /\ orphanConns' = orphanConns \cup Orphans({connectionId}, nodeGraphicsObjects)
  /\ UNCHANGED << nodeGraphicsObjects, draftVars, pc, traversalVars >>

OnConnectionCreated ==
  /\ Deliver("connectionCreated")
  /\ onConnectionCreated(Head(pending).arg)
  /\ UNCHANGED << modelVars, strategyVars, lastOp >>

\* onNodeDeleted that finds the entry and does not erase it
onNodeDeleted_KeepsObject(nodeId) ==
  /\ UNCHANGED << mapVars, draftVars, pc, traversalVars, created, orphanConns >>

\* onNodeDeleted
onNodeDeleted(nodeId) ==
  /\ nodeGraphicsObjects' = nodeGraphicsObjects \ {nodeId}
  /\ UNCHANGED << connectionGraphicsObjects, draftVars, pc, traversalVars,
                  created, orphanConns >>

OnNodeDeleted ==
  /\ Deliver("nodeDeleted")
  /\ onNodeDeleted(Head(pending).arg)
  /\ UNCHANGED << modelVars, strategyVars, lastOp >>

\* onNodeCreated that keeps the object of a key that is there already
onNodeCreated_KeepsExisting(nodeId) ==
  /\ nodeGraphicsObjects' = nodeGraphicsObjects \cup {nodeId}
  /\ created' = IF nodeId \in nodeGraphicsObjects THEN created
                ELSE [created EXCEPT !.nodes = @ \cup {nodeId}]
  /\ UNCHANGED << connectionGraphicsObjects, draftVars, pc, traversalVars,
                  orphanConns >>

\* onNodeCreated
onNodeCreated(nodeId) ==
  /\ nodeGraphicsObjects' = nodeGraphicsObjects \cup {nodeId}
  /\ created' = [created EXCEPT !.nodes = @ \cup {nodeId}]
  /\ UNCHANGED << connectionGraphicsObjects, draftVars, pc, traversalVars,
                  orphanConns >>

OnNodeCreated ==
  /\ Deliver("nodeCreated")
  /\ onNodeCreated(Head(pending).arg)
  /\ UNCHANGED << modelVars, strategyVars, lastOp >>

\* onNodePositionUpdated: the graphics object, if there is one, is moved
\* and repainted; no object is made or removed
OnNodePositionUpdated ==
  /\ Deliver("nodePositionUpdated")
  /\ UNCHANGED << modelVars, mapVars, draftVars, strategyVars, pc,
                  traversalVars, logVars, orphanConns >>

\* onNodeUpdated: the graphics object, if there is one, gets its geometry
\* recomputed and is repainted; no object is made or removed
OnNodeUpdated ==
  /\ Deliver("nodeUpdated")
  /\ UNCHANGED << modelVars, mapVars, draftVars, strategyVars, pc,
                  traversalVars, logVars, orphanConns >>

\* onModelReset: both maps are cleared, QGraphicsScene::clear() deletes
\* every item still on the scene (the draft connection object, which
\* _draftConnection goes on referring to), and the traversal is called
onModelReset ==
  /\ nodeGraphicsObjects' = {}
  /\ connectionGraphicsObjects' = {}
  /\ liveDrafts' = 0
  /\ draftDangling' = (draftConnection # NoDraft)
  /\ UNCHANGED draftConnection
  /\ BeginTraverse
  /\ UNCHANGED orphanConns

OnModelReset ==
  /\ Deliver("modelReset")
  /\ onModelReset
  /\ UNCHANGED << modelVars, strategyVars, logVars >>

\* ------------------------------------------------------------------------
\* The scene's API
\* ------------------------------------------------------------------------

\* the node an incomplete connection id is bound to
BoundNode(connectionId) ==
  IF connectionId.outNodeId # InvalidNodeId
  THEN connectionId.outNodeId ELSE connectionId.inNodeId

\* makeDraftConnection that releases the object it held instead of
\* destroying it
makeDraftConnection_Leaks(incompleteConnectionId) ==
  /\ draftConnection' = incompleteConnectionId
  /\ draftDangling' = FALSE
  /\ created' = [NoObjects EXCEPT !.drafts = 1]
  /\ liveDrafts' = liveDrafts + 1
  /\ UNCHANGED pc

\* makeDraftConnection: a new object is constructed, and the move assignment
\* to _draftConnection deletes the object it held.  Deleting an object that
\* QGraphicsScene::clear() has deleted already has no visible effect or
\* stops the process.
makeDraftConnection(incompleteConnectionId) ==
  /\ draftConnection' = incompleteConnectionId
  /\ draftDangling' = FALSE
  /\ created' = [NoObjects EXCEPT !.drafts = 1]
  /\ \/ /\ draftConnection = NoDraft
        /\ liveDrafts' = liveDrafts + 1
        /\ UNCHANGED pc
     \/ /\ draftConnection # NoDraft /\ ~draftDangling
        /\ liveDrafts' = (liveDrafts + 1) - 1
        /\ UNCHANGED pc
     \/ /\ draftConnection # NoDraft /\ draftDangling
        /\ liveDrafts' = liveDrafts + 1
        /\ \/ UNCHANGED pc
           \/ pc' = "crashed"

\* makeDraftConnection that files the draft in the connection map, as
\* onConnectionCreated files a connection
MakeDraftConnection_StoresInMap(incompleteConnectionId) ==
  /\ Call("makeDraftConnection", draftConnection # NoDraft)
  /\ BoundNode(incompleteConnectionId) \in nodeGraphicsObjects
  /\ makeDraftConnection(incompleteConnectionId)
  /\ connectionGraphicsObjects' =
       connectionGraphicsObjects \cup {incompleteConnectionId}
  /\ UNCHANGED << modelVars, pending, nodeGraphicsObjects, strategyVars,
                  traversalVars, orphanConns >>

\* the caller is the graphics object of the bound node
MakeDraftConnection(incompleteConnectionId) ==
  /\ Call("makeDraftConnection", draftConnection # NoDraft)
  /\ BoundNode(incompleteConnectionId) \in nodeGraphicsObjects
  /\ makeDraftConnection(incompleteConnectionId)
  /\ UNCHANGED << modelVars, pending, mapVars, strategyVars, traversalVars,
                  orphanConns >>

\* resetDraftConnection
resetDraftConnection ==
  /\ draftConnection' = NoDraft
  /\ draftDangling' = FALSE
  /\ created' = NoObjects
  /\ \/ /\ draftConnection = NoDraft
        /\ UNCHANGED << liveDrafts, pc >>
     \/ /\ draftConnection # NoDraft /\ ~draftDangling
        /\ liveDrafts' = liveDrafts - 1
        /\ UNCHANGED pc
     \/ /\ draftConnection # NoDraft /\ draftDangling
        /\ UNCHANGED liveDrafts
        /\ \/ UNCHANGED pc
           \/ pc' = "crashed"

ResetDraftConnection ==
  /\ Call("resetDraftConnection", draftConnection # NoDraft)
  /\ resetDraftConnection
  /\ UNCHANGED << modelVars, pending, mapVars, strategyVars, traversalVars,
                  orphanConns >>

\* the notifications of clearScene's loop: deleteNode for each node id of
\* the copy ns, in ascending order, on the connections cs still there
RECURSIVE ClearSceneNotifications(_, _)
ClearSceneNotifications(ns, cs) ==
  IF ns = {} THEN << >>
  ELSE LET nodeId == CHOOSE n \in ns : \A m \in ns : n <= m
       IN  DeleteNodeNotifications(cs, nodeId)
             \o ClearSceneNotifications(ns \ {nodeId},
                                        cs \ Attached(cs, nodeId))

\* clearScene whose loop ends after the first node
ClearScene_FirstNodeOnly ==
  /\ Call("clearScene", [nodes |-> Cardinality(nodes),
                         conns |-> Cardinality(conns)])
  /\ nodes # {}
  /\ LET nodeId == CHOOSE n \in nodes : \A m \in nodes : n <= m
     IN  /\ nodes' = nodes \ {nodeId}
         /\ conns' = conns \ Attached(conns, nodeId)
         /\ pending' = DeleteNodeNotifications(conns, nodeId)
  /\ created' = NoObjects
  /\ UNCHANGED << mapVars, draftVars, strategyVars, pc, traversalVars,
                  orphanConns >>

\* clearScene: deleteNode on the model for every node id
ClearScene ==
  /\ Call("clearScene", [nodes |-> Cardinality(nodes),
                         conns |-> Cardinality(conns)])
  /\ nodes' = {}
  /\ conns' = {}
  /\ pending' = ClearSceneNotifications(nodes, conns)
  /\ created' = NoObjects
  /\ UNCHANGED << mapVars, draftVars, strategyVars, pc, traversalVars,
                  orphanConns >>

\* a switch whose cases both construct the horizontal geometry
GeometryFor_AlwaysHorizontal(o) ==
  IF o = "Horizontal" THEN "Horizontal" ELSE "Horizontal"

\* the geometry setOrientation's switch constructs
GeometryFor(o) ==
  IF o = "Horizontal" THEN "Horizontal" ELSE "Vertical"

\* setOrientation that swaps the geometry and does not reset
SetOrientation_NoReset(o) ==
  /\ Call("setOrientation", [from |-> orientation, to |-> o])
  /\ created' = NoObjects
  /\ IF orientation # o
     THEN /\ orientation' = o
          /\ nodeGeometry' = GeometryFor(o)
          /\ UNCHANGED << nodePainter, mapVars, draftVars, pc, traversalVars,
                          orphanConns >>
     ELSE UNCHANGED << mapVars, draftVars, strategyVars, pc, traversalVars,
                       orphanConns >>
  /\ UNCHANGED << modelVars, pending >>

\* setOrientation without the test of the current orientation
SetOrientation_AlwaysResets(o) ==
  /\ Call("setOrientation", [from |-> orientation, to |-> o])
  /\ created' = NoObjects
  /\ orientation' = o
  /\ nodeGeometry' = GeometryFor(o)
  /\ UNCHANGED nodePainter
  /\ onModelReset
  /\ UNCHANGED << modelVars, pending >>

\* setOrientation
SetOrientation(o) ==
  /\ Call("setOrientation", [from |-> orientation, to |-> o])
  /\ created' = NoObjects
  /\ IF orientation # o
     THEN /\ orientation' = o
          /\ nodeGeometry' = GeometryFor(o)
          /\ UNCHANGED nodePainter
          /\ onModelReset
     ELSE UNCHANGED << mapVars, draftVars, strategyVars, pc, traversalVars,
                       orphanConns >>
  /\ UNCHANGED << modelVars, pending >>

\* the painters a caller may hand over
Painters == {"DefaultNodePainter", "CustomNodePainter"}

\* setNodePainter
SetNodePainter(newPainter) ==
  /\ Call("setNodePainter", newPainter)
  /\ nodePainter' = newPainter
  /\ created' = NoObjects
  /\ UNCHANGED << modelVars, pending, mapVars, draftVars, orientation,
                  nodeGeometry, pc, traversalVars, orphanConns >>

\* the pointer a lookup returns: the object kept under the key, or nullptr
NullObject == {}

\* nodeGraphicsObject(nodeId)
nodeGraphicsObject(nodeId) ==
  IF nodeId \in nodeGraphicsObjects THEN {nodeId} ELSE NullObject

\* connectionGraphicsObject(connectionId)
connectionGraphicsObject(connectionId) ==
  IF connectionId \in connectionGraphicsObjects
  THEN {connectionId} ELSE NullObject

\* a caller looks a node id up
NodeGraphicsObject(nodeId) ==
  /\ Call("nodeGraphicsObject",
          [id |-> nodeId, result |-> nodeGraphicsObject(nodeId)])
  /\ created' = NoObjects
  /\ UNCHANGED << modelVars, pending, mapVars, draftVars, strategyVars, pc,
                  traversalVars, orphanConns >>

\* a caller looks a connection id up
ConnectionGraphicsObject(connectionId) ==
  /\ Call("connectionGraphicsObject",
          [id |-> connectionId, result |-> connectionGraphicsObject(connectionId)])
  /\ created' = NoObjects
  /\ UNCHANGED << modelVars, pending, mapVars, draftVars, strategyVars, pc,
                  traversalVars, orphanConns >>

\* ------------------------------------------------------------------------
\* A graph model that also emits notifications no mutation stands behind
\* ------------------------------------------------------------------------

\* nodeCreated for a node that is there already; nodeDeleted, nodeUpdated
\* and nodePositionUpdated for a node id that is not there
StrayNodeNotifications(ns) ==
  { Notification("nodeCreated", n) : n \in ns }
    \cup { Notification(k, n) :
             k \in {"nodeDeleted", "nodeUpdated", "nodePositionUpdated"},
             n \in NodeIds \ ns }

\* connectionDeleted for a connection id, complete or not, that is not there
StrayConnectionNotifications(cs) ==
  { Notification("connectionDeleted", c) :
      c \in (ConnectionIds(NodeIds) \cup DraftIds) \ cs }

ModelNotifies(notification) ==
  /\ Call("notify", notification.kind)
  /\ pending' = << notification >>
  /\ created' = NoObjects
  /\ UNCHANGED << modelVars, mapVars, draftVars, strategyVars, pc,
                  traversalVars, orphanConns >>

\* ------------------------------------------------------------------------
\* Specifications
\* ------------------------------------------------------------------------

Next ==
  \/ TraverseOuter
  \/ TraverseNode
  \/ TraverseCreate
  \/ \E nodeId \in NodeIds : ModelAddNode(nodeId)
  \/ \E nodeId \in NodeIds : ModelDeleteNode(nodeId)
  \/ \E connectionId \in ConnectionIds(NodeIds) : ModelAddConnection(connectionId)
  \/ \E connectionId \in ConnectionIds(NodeIds) : ModelDeleteConnection(connectionId)
  \/ \E nodeId \in NodeIds, kind \in {"nodeUpdated", "nodePositionUpdated"} :
       ModelSetNodeData(nodeId, kind)
  \/ \E m \in Reloaded(nodes, conns) : ModelReset(m)
  \/ OnConnectionDeleted
  \/ OnConnectionCreated
  \/ OnNodeDeleted
  \/ OnNodeCreated
  \/ OnNodePositionUpdated
  \/ OnNodeUpdated
  \/ OnModelReset
  \/ \E d \in DraftIds : MakeDraftConnection(d)
  \/ ResetDraftConnection
  \/ ClearScene
  \/ \E o \in Orientations : SetOrientation(o)

Spec == Init /\ [][Next]_vars


\* the traversal alone, on the models in which every node has at most one
\* outgoing connection, to another node (chains and rings such as
\* 1 -> 2 -> 1): its fifo never holds more than one node id, so that no
\* bound stops it, and the node at the front changes in every iteration
SingleSuccessorModels ==
  { m \in Models :
      /\ \A n \in m.nodes :
           Cardinality({ c \in m.conns : c.outNodeId = n }) <= 1
      /\ \A c \in m.conns : c.outNodeId # c.inNodeId }

TraversalInit == \E m \in SingleSuccessorModels : Constructed(m)

TraversalNext == TraverseOuter \/ TraverseNode \/ TraverseCreate

\* the traversal is straight-line code: it goes on while it can
TraversalSpec ==
  TraversalInit /\ [][TraversalNext]_vars /\ WF_vars(TraversalNext)

\* the scene over a graph model that deletes, reloads and also emits stray
\* notifications, with callers that look ids up and drag draft connections
StrayNext ==
  \/ TraverseOuter
  \/ TraverseNode
  \/ TraverseCreate
  \/ \E nodeId \in NodeIds : ModelDeleteNode(nodeId)
  \/ \E connectionId \in ConnectionIds(NodeIds) : ModelDeleteConnection(connectionId)
  \/ \E m \in Reloaded(nodes, conns) : ModelReset(m)
  \/ OnConnectionDeleted
  \/ OnNodeDeleted
  \/ OnNodeCreated
  \/ OnNodePositionUpdated
  \/ OnNodeUpdated
  \/ OnModelReset
  \/ \E d \in DraftIds : MakeDraftConnection(d)
  \/ ResetDraftConnection
  \/ \E notification \in StrayNodeNotifications(nodes) :
       ModelNotifies(notification)
  \/ \E notification \in StrayConnectionNotifications(conns) :
       ModelNotifies(notification)
  \/ \E nodeId \in NodeIds : NodeGraphicsObject(nodeId)
  \/ \E connectionId \in ConnectionIds(NodeIds) \cup DraftIds :
       ConnectionGraphicsObject(connectionId)

StraySpec == Init /\ [][StrayNext]_vars

\* the scene under calls of setOrientation and setNodePainter and resets
\* of the model
StrategyNext ==
  \/ TraverseOuter
  \/ TraverseNode
  \/ TraverseCreate
  \/ \E m \in Reloaded(nodes, conns) : ModelReset(m)
  \/ OnModelReset
  \/ \E o \in Orientations : SetOrientation(o)
  \/ \E newPainter \in Painters : SetNodePainter(newPainter)

StrategySpec == Init /\ [][StrategyNext]_vars

\* ------------------------------------------------------------------------
\* Sanity of the bounds
\* ------------------------------------------------------------------------

\* a traversal that gets to create the connection objects has recorded
\* fewer connections than the model tracks: its list is the code's list
ToCreateExact ==
  (pc = "outer" /\ allNodeIds = {}) => Len(connectionsToCreate) < MaxToCreate

\* ------------------------------------------------------------------------
\* Properties
\* ------------------------------------------------------------------------

\* a population (the constructor's, or a full reset's) has finished
PopulationFinished ==
  /\ Quiescent
  /\ \/ lastOp.name \in {"construct", "modelReset"}
     \/ lastOp.name = "setOrientation" /\ lastOp.arg.from # lastOp.arg.to

\* C1: on every finite model, rings and self-loops included, the traversal
\* terminates, and then the node map has one entry per model node and the
\* connection map one entry per connection of the model.
C1_TraversalTerminates ==
  <>(/\ pc = "idle"
     /\ nodeGraphicsObjects = nodes
     /\ connectionGraphicsObjects = conns)


\* C2: whenever nothing is executing, the keys of the node map are the
\* node ids of the model.
C2_NodeMapMirrorsModel ==
  Quiescent => nodeGraphicsObjects = nodes

\* a node with a connection has been deleted and other nodes remain
C2_Witness ==
  /\ Quiescent
  /\ lastOp.name = "deleteNode"
  /\ nodes # {}
  /\ nodes # NodeIds
  /\ nodeGraphicsObjects = nodes

\* C3: whenever nothing is executing, the keys of the connection map are the
\* connection ids of the model; with the nodes 1, 2, 3 and the connection
\* (1,0)->(2,0), the creation of (2,0)->(3,0) leaves exactly two entries.
C3_ConnectionMapMirrorsModel ==
  /\ Quiescent => connectionGraphicsObjects = conns
  /\ (/\ Quiescent
      /\ nodes = {1, 2, 3}
      /\ conns = {ConnectionId(1, 0, 2, 0), ConnectionId(2, 0, 3, 0)})
     => Cardinality(connectionGraphicsObjects) = 2

\* the scenario: (2,0)->(3,0) has just been created next to (1,0)->(2,0)
C3_Witness ==
  /\ Quiescent
  /\ lastOp.name = "addConnection"
  /\ nodes = {1, 2, 3}
  /\ conns = {ConnectionId(1, 0, 2, 0), ConnectionId(2, 0, 3, 0)}
  /\ created.conns = {ConnectionId(2, 0, 3, 0)}
  /\ Cardinality(connectionGraphicsObjects) = 2

\* C4: when a population finishes, the keys of the node map are the node
\* ids of the model, whichever node each round popped first.
C4_NodeCoverage ==
  PopulationFinished => nodeGraphicsObjects = nodes

\* a population has finished on a model with a connected pair, whose target
\* is a sink, and an isolated node
C4_Witness ==
  /\ PopulationFinished
  /\ nodes = {1, 2, 3}
  /\ conns = {ConnectionId(1, 0, 2, 0)}
  /\ nodeGraphicsObjects = {1, 2, 3}

\* the connections the model returns for the out ports of its nodes
OutPortConnections ==
  UNION { UNION { connections(n, "Out", i) : i \in 0 .. (OutPortCount(n) - 1) } :
            n \in nodes }

\* C5: when a population finishes, the keys of the connection map are the
\* connection ids the model returns for the out ports, below OutPortCount,
\* of its nodes.
C5_ConnectionCoverage ==
  PopulationFinished => connectionGraphicsObjects = OutPortConnections

\* a population has finished on a model with connections on both out ports
\* of node 2
C5_Witness ==
  /\ PopulationFinished
  /\ conns = {ConnectionId(2, 0, 3, 0), ConnectionId(2, 1, 1, 0)}
  /\ connectionGraphicsObjects = conns

\* C6: no connection object is constructed, by the traversal or by
\* onConnectionCreated, while an endpoint node has no graphics object.
C6_NodesBeforeConnections ==
  orphanConns = {}

\* connection objects have been constructed by a traversal that reached a
\* node a second time
C6_Witness ==
  /\ PopulationFinished
  /\ conns = {ConnectionId(1, 0, 2, 0), ConnectionId(2, 0, 3, 0)}
  /\ created.conns = conns
  /\ orphanConns = {}

\* C7: when the notifications of clearScene have been delivered, both maps
\* and the model are empty.
C7_ClearSceneEmptiesAll ==
  (Quiescent /\ lastOp.name = "clearScene")
    => /\ nodeGraphicsObjects = {}
       /\ connectionGraphicsObjects = {}
       /\ nodes = {}
       /\ conns = {}

\* clearScene has run to its end on a model with three nodes and two
\* connections
C7_Witness ==
  /\ Quiescent
  /\ lastOp.name = "clearScene"
  /\ lastOp.arg.nodes = 3
  /\ lastOp.arg.conns = 2
  /\ nodeGraphicsObjects = {}
  /\ connectionGraphicsObjects = {}

\* C8: when setOrientation(o) with o other than the current orientation has
\* returned, the maps hold what a population of the empty maps from the
\* model makes: an object made by this call for each node and for each
\* connection of the model, and no other; and the orientation is o.
C8_OrientationChangeRepopulates ==
  (/\ Quiescent
   /\ lastOp.name = "setOrientation"
   /\ lastOp.arg.from # lastOp.arg.to)
    => /\ nodeGraphicsObjects = nodes
       /\ connectionGraphicsObjects = conns
       /\ created.nodes = nodes
       /\ created.conns = conns
       /\ orientation = lastOp.arg.to

\* setOrientation(Vertical) has returned on a model with nodes and
\* connections
C8_Witness ==
  /\ Quiescent
  /\ lastOp.name = "setOrientation"
  /\ lastOp.arg.from = "Horizontal"
  /\ lastOp.arg.to = "Vertical"
  /\ orientation = "Vertical"
  /\ nodes = {1, 2, 3}
  /\ Cardinality(conns) = 2
  /\ connectionGraphicsObjects = conns

\* C9: setOrientation(o) with o the current orientation changes nothing: no
\* object is made or removed, and the maps, the geometry, the orientation,
\* the draft connection and the model stay as they are.
C9_SameOrientationIsNoOp ==
  [][(/\ Quiescent
      /\ lastOp'.name = "setOrientation"
      /\ lastOp'.arg.from = lastOp'.arg.to)
       => /\ UNCHANGED << mapVars, draftVars, strategyVars, modelVars,
                          pending, pc, traversalVars >>
          /\ created' = NoObjects]_vars

\* setOrientation(Vertical) has returned on a vertical scene with objects
\* and a draft connection
C9_Witness ==
  /\ Quiescent
  /\ lastOp.name = "setOrientation"
  /\ lastOp.arg.from = "Vertical"
  /\ lastOp.arg.to = "Vertical"
  /\ orientation = "Vertical"
  /\ nodeGraphicsObjects = {1, 2, 3}
  /\ connectionGraphicsObjects # {}
  /\ draftConnection # NoDraft

\* C10: never more than one draft connection object exists.
C10_AtMostOneDraft ==
  liveDrafts <= 1

\* makeDraftConnection has been called while a draft connection existed
C10_Witness ==
  /\ lastOp = Op("makeDraftConnection", TRUE)
  /\ pc = "idle"
  /\ liveDrafts = 1
  /\ draftConnection # NoDraft

\* C11: resetDraftConnection, from any state, leaves the scene without a
\* draft connection and everything else as it was; called when there is no
\* draft connection, or right after a call of itself, it changes nothing.
C11_ResetDraftIdempotent ==
  [][(Quiescent /\ lastOp'.name = "resetDraftConnection")
       => /\ draftConnection' = NoDraft
          /\ UNCHANGED << modelVars, pending, mapVars, strategyVars, pc,
                          traversalVars, orphanConns >>
          /\ (draftConnection = NoDraft \/ lastOp.name = "resetDraftConnection")
               => UNCHANGED draftVars]_vars

\* C12: makeDraftConnection and resetDraftConnection, whenever they are
\* called, leave the model's nodes and connections and both maps as they
\* are, and the id of the draft connection is never a key of the
\* connection map.
C12_DraftOutsideModelAndMaps ==
  /\ [](draftConnection \notin connectionGraphicsObjects)
  /\ [][(Quiescent /\ lastOp'.name \in {"makeDraftConnection",
                                        "resetDraftConnection"})
          => UNCHANGED << modelVars, mapVars >>]_vars

\* makeDraftConnection has returned on a scene with connection objects
C12_Witness ==
  /\ lastOp.name = "makeDraftConnection"
  /\ pc = "idle"
  /\ draftConnection \in DraftIds
  /\ nodeGraphicsObjects = {1, 2, 3}
  /\ Cardinality(connectionGraphicsObjects) = 2
  /\ connectionGraphicsObjects = conns

\* the notification kind is about to be handled
Handling(kind) ==
  /\ pc = "idle"
  /\ pending # << >>
  /\ Head(pending).kind = kind

\* C13: the handling of connectionDeleted(cid) removes the key cid from the
\* connection map and nothing else from either map; a draft connection
\* whose id is cid is destroyed, and a draft connection with another id
\* stays as it is.
C13_ConnectionDeleted ==
  [][Handling("connectionDeleted")
       => /\ connectionGraphicsObjects' =
               connectionGraphicsObjects \ {Head(pending).arg}
          /\ UNCHANGED nodeGraphicsObjects
          /\ (draftConnection = Head(pending).arg)
               => draftConnection' = NoDraft
          /\ (draftConnection # Head(pending).arg)
               => UNCHANGED draftVars]_vars

\* C14: a lookup of an id without an object returns nullptr and changes
\* nothing; the handling of nodeDeleted, nodeUpdated, nodePositionUpdated
\* and connectionDeleted for an id without an object does not fail and
\* leaves both maps as they are.
C14_AbsentIdsAreHarmless ==
  [][/\ (/\ Quiescent
         /\ lastOp'.name = "nodeGraphicsObject"
         /\ lastOp'.arg.id \notin nodeGraphicsObjects)
          => /\ lastOp'.arg.result = NullObject
             /\ UNCHANGED << modelVars, pending, mapVars, draftVars,
                             strategyVars, pc, traversalVars, orphanConns >>
     /\ (/\ Quiescent
         /\ lastOp'.name = "connectionGraphicsObject"
         /\ lastOp'.arg.id \notin connectionGraphicsObjects)
          => /\ lastOp'.arg.result = NullObject
             /\ UNCHANGED << modelVars, pending, mapVars, draftVars,
                             strategyVars, pc, traversalVars, orphanConns >>
     /\ (/\ \/ Handling("nodeDeleted")
            \/ Handling("nodeUpdated")
            \/ Handling("nodePositionUpdated")
         /\ Head(pending).arg \notin nodeGraphicsObjects)
          => /\ UNCHANGED mapVars
             /\ pc' = "idle"
     /\ (/\ Handling("connectionDeleted")
         /\ Head(pending).arg \notin connectionGraphicsObjects)
          => /\ UNCHANGED mapVars
             /\ pc' = "idle"]_vars

\* C15: the handling of nodeCreated(id) for an id that has an object makes
\* a new object for id and leaves the keys of the node map and the
\* connection map as they are.
C15_NodeCreatedOverwrites ==
  [][(/\ Handling("nodeCreated")
      /\ Head(pending).arg \in nodeGraphicsObjects)
       => /\ nodeGraphicsObjects' = nodeGraphicsObjects
          /\ Head(pending).arg \in created'.nodes
          /\ UNCHANGED connectionGraphicsObjects]_vars

\* a second nodeCreated for node 2 has been handled on a scene with three
\* node objects and connection objects
C15_Witness ==
  /\ Quiescent
  /\ lastOp = Op("notify", "nodeCreated")
  /\ created.nodes = {2}
  /\ nodeGraphicsObjects = {1, 2, 3}
  /\ connectionGraphicsObjects # {}

\* C16: during a population no connection id is recorded twice: the list of
\* the connections to create holds no duplicate, whichever node each round
\* pops first.
C16_RecordedOnce ==
  \A i, j \in 1 .. Len(connectionsToCreate) :
    i # j => connectionsToCreate[i] # connectionsToCreate[j]

\* C17: in every state the geometry is the variant of the orientation,
\* horizontal iff the orientation is horizontal and vertical iff it is
\* vertical; setNodePainter changes neither the geometry, nor the
\* orientation, nor the maps.
C17_GeometryMatchesOrientation ==
  /\ [](/\ nodeGeometry = "Horizontal" <=> orientation = "Horizontal"
        /\ nodeGeometry = "Vertical" <=> orientation = "Vertical")
  /\ [][(Quiescent /\ lastOp'.name = "setNodePainter")
          => UNCHANGED << orientation, nodeGeometry, mapVars >>]_vars

\* a painter has been set on a vertical scene with objects
C17_Witness ==
  /\ Quiescent
  /\ lastOp = Op("setNodePainter", "CustomNodePainter")
  /\ nodePainter = "CustomNodePainter"
  /\ orientation = "Vertical"
  /\ nodeGeometry = "Vertical"
  /\ nodeGraphicsObjects = {1, 2, 3}
  /\ connectionGraphicsObjects # {}

\* C18: whenever nothing is executing and the scene holds a draft
\* connection, the node the draft is bound to has an entry in the node map.
C18_DraftNodeHasObject ==
  (Quiescent /\ draftConnection # NoDraft)
    => BoundNode(draftConnection) \in nodeGraphicsObjects

\* C19: when a full reset (modelReset, or setOrientation to another
\* orientation) has run to its end, the draft connection the scene holds,
\* if it holds one, is an object that exists, on the graphics scene; the
\* objects of both maps are made after the scene is cleared.
C19_ResetKeepsHeldObjects ==
  (/\ Quiescent
   /\ \/ lastOp.name = "modelReset"
      \/ lastOp.name = "setOrientation" /\ lastOp.arg.from # lastOp.arg.to
   /\ draftConnection # NoDraft)
    => /\ ~draftDangling
       /\ liveDrafts = 1

====
